---- MODULE Spec2Model ----
(***************************************************************************)
(* The Blockchain class of src/blockchain.js as a state machine.           *)
(*                                                                         *)
(* State: the chain array, the height counter, the wall clock, the queue   *)
(* of promise reaction jobs (microtasks) that the class has scheduled, the *)
(* `stars` array of the getStarsByWalletAddress call in flight, and the    *)
(* record of the last call and how its promise stands (`at` is the clock   *)
(* reading the call took, 0 when it takes none).  `sealed` is a history    *)
(* variable: the blocks as _addBlock pushed them.                          *)
(*                                                                         *)
(* Values: JavaScript null is the empty tuple.  A SHA256 digest is the     *)
(* tuple of the fields that JSON.stringify puts in the hashed string, so   *)
(* two digests are equal exactly when the hashed strings are equal.  A     *)
(* decimal string is the number it denotes.  A JSON object is the tuple of *)
(* its keys and values in order.                                           *)
(***************************************************************************)
EXTENDS Integers, Sequences, FiniteSets, TLC

VARIABLES chain, height, now, ticks, jobs, stars, last, sealed

vars == <<chain, height, now, ticks, jobs, stars, last, sealed>>

(***************************** bounds **************************************)
\* Number of blocks the chain array may hold (genesis included).
MaxChain == 3

\* The wallet addresses and the star payload that callers use.
Addresses == {"A", "B"}
Stars == {"s1"}
\* new Date().getTime() when the Blockchain is constructed.
StartMs == 1000000
\* The instants (ms) at which operations run: at construction, and 299 and
\* 300 seconds later.
Instants == <<StartMs, StartMs + 299000, StartMs + 300000>>

(***************************** values **************************************)
Null == <<>>

\* new Date().getTime().toString().slice(0, -3): the decimal string of the
\* milliseconds without its last three digits, i.e. the whole seconds.
SliceSeconds(ms) == ms \div 1000

\* Unary plus in `x =+ 1`: the statement assigns +1, it does not add.
UnaryPlus(n) == n

\* The payloads: {data: 'Genesis Block'} and {data: {star: .., owner: ..}}.
GenesisData == [data |-> <<"Genesis Block">>]
\* (a variant with the two values under each other's key)
StarDataSwapped(star, address) == [data |-> <<"star", address, "owner", star>>]
StarData(star, address) == [data |-> <<"star", star, "owner", address>>]

\* Buffer.from(JSON.stringify(data)).toString('hex') and its inverse.
Encode(data) == [hex |-> data]
Decode(body) == body.hex

\* new BlockClass.Block(data): an unsealed block.
Block(data) ==
  [hash |-> Null, height |-> 0, body |-> Encode(data), time |-> 0,
   previousBlockHash |-> Null]

\* SHA256(JSON.stringify(block)).toString(): every field of the block is in
\* the hashed string, the hash field included (null when a block is sealed).
SHA256Json(block) ==
  <<block.hash, block.height, block.body, block.time, block.previousBlockHash>>

\* A value that refers to itself, as a block body: JSON.stringify throws a
\* TypeError on it and no string reaches SHA256.
Cyclic == [hex |-> [data |-> <<"[Circular]">>]]

\* JSON.stringify(block) returns a string.
Stringifiable(block) == block.body # Cyclic

\* block.validate(): the stored hash against the hash recomputed from the
\* block's current fields; TRUE when the block is returned as valid.
BlockValidate(block) == SHA256Json([block EXCEPT !.hash = Null]) = block.hash

\* block.getBData(): a resolved promise of the block with its body decoded.
GetBData(block) == [block EXCEPT !.body = Decode(block.body)]

\* resolved_block.body.data.owner: undefined for a payload without an owner.
Owner(decoded) ==
  LET d == decoded.body.data
  IN IF Len(d) = 4 /\ d[3] = "owner" THEN d[4] ELSE "undefined"

(*************************** _addBlock *************************************)
\* self.chain[i] for a JavaScript index i; Null stands for undefined.
HasIndex(ch, i) == i \in 0..(Len(ch) - 1)

\* (a variant of _addBlock below that stores the block at index height
\* instead of pushing it)
AddBlockAtHeight(ch, h, block, ms) ==
  LET timed == [block EXCEPT !.time = SliceSeconds(ms)]
  IN IF h > -1 /\ ~HasIndex(ch, h - 1)
     THEN [chain |-> ch, height |-> h, promise |-> "pending", index |-> -1]
     ELSE LET linked == IF h > -1
                        THEN [timed EXCEPT !.previousBlockHash = ch[(h - 1) + 1].hash,
                                           !.height = UnaryPlus(1)]
                        ELSE timed
              hashed == [linked EXCEPT !.hash = SHA256Json(linked)]
          IN IF HasIndex(ch, h)
             THEN [chain |-> [ch EXCEPT ![h + 1] = hashed], height |-> UnaryPlus(1),
                   promise |-> "resolved", index |-> h]
             ELSE [chain |-> Append(ch, hashed), height |-> UnaryPlus(1),
                   promise |-> "resolved", index |-> Len(ch)]

\* _addBlock(block) on chain ch with height counter h at clock ms.  The
\* result is the new chain and height and how the promise stands: "resolved"
\* with the sealed block at index `index`, or "pending" when the executor
\* throws on reading .hash of undefined or in JSON.stringify (the async
\* executor's rejection is dropped and the promise never settles).  The
\* reject(..) of the source is not here: `if(block)` tests the object that
\* was just written to, which is never falsy.
AddBlock(ch, h, block, ms) ==
  LET timed == [block EXCEPT !.time = SliceSeconds(ms)]
  IN IF h > -1 /\ ~HasIndex(ch, h - 1)
     THEN [chain |-> ch, height |-> h, promise |-> "pending", index |-> -1]
     ELSE LET linked == IF h > -1
                        THEN [timed EXCEPT !.previousBlockHash = ch[(h - 1) + 1].hash,
                                           !.height = UnaryPlus(1)]
                        ELSE timed
              hashed == [linked EXCEPT !.hash = SHA256Json(linked)]
          IN IF ~Stringifiable(linked)
             THEN [chain |-> ch, height |-> h, promise |-> "pending", index |-> -1]
             ELSE [chain |-> Append(ch, hashed), height |-> UnaryPlus(1),
                   promise |-> "resolved", index |-> Len(ch)]

(************************** constructor ************************************)
\* (a variant of initializeChain below without the height test)
InitializeChainAlways(ch, h, ms) == AddBlock(ch, h, Block(GenesisData), ms)

\* constructor(): chain = [], height = -1, then initializeChain(), whose
\* _addBlock executor runs synchronously inside the constructor.
InitializeChain(ch, h, ms) ==
  IF h = -1 THEN AddBlock(ch, h, Block(GenesisData), ms)
            ELSE [chain |-> ch, height |-> h, promise |-> "resolved", index |-> -1]

NoCall == [op |-> "none", args |-> <<>>, at |-> 0, outcome |-> "none", value |-> <<>>]

Init ==
  /\ chain = InitializeChain(<<>>, -1, StartMs).chain
  /\ height = InitializeChain(<<>>, -1, StartMs).height
  /\ now = Instants[1]
  /\ ticks = 1
  /\ jobs = <<>>
  /\ stars = <<>>
  /\ last = NoCall
  /\ sealed = InitializeChain(<<>>, -1, StartMs).chain

(**************** requestMessageOwnershipVerification *********************)
\* `${address}:${seconds}:starRegistry`, as the fields that split(':') gives.
ChallengeString(address, ms) == <<address, SliceSeconds(ms), "starRegistry">>

\* A message without any ':' (split gives one field, field 1 is undefined).
PlainMessage == <<"hello">>

(***************************** numbers *************************************)
\* JavaScript numbers as used by submitStar: NaN, or the fraction num/den.
NaN == [nan |-> TRUE, num |-> 0, den |-> 1]
Num(n) == [nan |-> FALSE, num |-> n, den |-> 1]
Sub(a, b) == IF a.nan \/ b.nan THEN NaN
             ELSE [nan |-> FALSE, num |-> a.num * b.den - b.num * a.den,
                   den |-> a.den * b.den]
Div(a, k) == IF a.nan THEN NaN ELSE [a EXCEPT !.den = a.den * k]
\* a < k; every comparison with NaN is false.
LessThan(a, k) == ~a.nan /\ a.num < k * a.den

\* parseInt(message.split(':')[i]): NaN for a missing field.
ParseIntField(message, i) ==
  IF HasIndex(message, i) THEN Num(message[i + 1]) ELSE NaN

(*************************** signatures ************************************)
\* What a wallet produces when `signer` signs `message`, and a string that
\* is no signature at all.
Sign(signer, message) == [signer |-> signer, message |-> message, wellformed |-> TRUE]
MalformedSignature == [signer |-> "", message |-> <<>>, wellformed |-> FALSE]

\* bitcoinMessage.verify(message, address, signature): "true", "false", or
\* "throw" for a signature it cannot decode.
Verify(message, address, signature) ==
  IF ~signature.wellformed THEN "throw"
  ELSE IF signature.signer = address /\ signature.message = message THEN "true"
  ELSE "false"

(**************************** submitStar ***********************************)
SubmitError == "Error submitting star! Elapsed time must be less than 5 minutes"

\* (a variant of the test below that lets exactly five minutes pass)
GateAtMostFive(time_elapsed, verified) ==
  ~LessThan(Sub(Num(5), time_elapsed), 0) /\ ~time_elapsed.nan /\ verified = "true"

\* time_elapsed < 5 && verified
Gate(time_elapsed, verified) == LessThan(time_elapsed, 5) /\ verified = "true"

\* (a variant of the executor below that takes a star of an owner once)
SubmitStarSyncOnce(ch, h, address, message, signature, star, ms) ==
  LET time == ParseIntField(message, 1)
      current_time == Num(SliceSeconds(ms))
      time_elapsed == Div(Sub(current_time, time), 60)
      verified == Verify(message, address, signature)
      used == \E i \in 1..Len(ch) : ch[i].body = Encode(StarData(star, address))
  IN IF verified = "throw"
     THEN [chain |-> ch, height |-> h, promise |-> "pending", index |-> -1,
           error |-> ""]
     ELSE IF Gate(time_elapsed, verified) /\ ~used
     THEN LET r == AddBlock(ch, h, Block(StarData(star, address)), ms)
          IN [chain |-> r.chain, height |-> r.height,
              promise |-> IF r.promise = "resolved" THEN "awaiting" ELSE "pending",
              index |-> r.index, error |-> ""]
     ELSE [chain |-> ch, height |-> h, promise |-> "rejected", index |-> -1,
           error |-> SubmitError]

\* (a variant of the executor below that adds the block before it tests)
SubmitStarSyncAppendFirst(ch, h, address, message, signature, star, ms) ==
  LET time == ParseIntField(message, 1)
      current_time == Num(SliceSeconds(ms))
      time_elapsed == Div(Sub(current_time, time), 60)
      verified == Verify(message, address, signature)
      r == AddBlock(ch, h, Block(StarData(star, address)), ms)
  IN IF verified = "throw"
     THEN [chain |-> ch, height |-> h, promise |-> "pending", index |-> -1,
           error |-> ""]
     ELSE IF Gate(time_elapsed, verified)
     THEN [chain |-> r.chain, height |-> r.height,
           promise |-> IF r.promise = "resolved" THEN "awaiting" ELSE "pending",
           index |-> r.index, error |-> ""]
     ELSE [chain |-> r.chain, height |-> r.height, promise |-> "rejected",
           index |-> -1, error |-> SubmitError]

\* The synchronous part of submitStar's executor, up to its await: the new
\* chain and height, and how the promise stands: "rejected" with `error`,
\* "awaiting" (suspended at `await this._addBlock(block)` with the block
\* pushed at `index`), or "pending" for good when the executor threw.
SubmitStarSync(ch, h, address, message, signature, star, ms) ==
  LET time == ParseIntField(message, 1)
      current_time == Num(SliceSeconds(ms))
      time_elapsed == Div(Sub(current_time, time), 60)
      verified == Verify(message, address, signature)
  IN IF verified = "throw"
     THEN [chain |-> ch, height |-> h, promise |-> "pending", index |-> -1,
           error |-> ""]
     ELSE IF Gate(time_elapsed, verified)
     THEN LET r == AddBlock(ch, h, Block(StarData(star, address)), ms)
          IN [chain |-> r.chain, height |-> r.height,
              promise |-> IF r.promise = "resolved" THEN "awaiting" ELSE "pending",
              index |-> r.index, error |-> ""]
     ELSE [chain |-> ch, height |-> h, promise |-> "rejected", index |-> -1,
           error |-> SubmitError]

\* The clock advances to the next instant.
Tick ==
  /\ ticks < Len(Instants)
  /\ now' = Instants[ticks + 1]
  /\ ticks' = ticks + 1
  /\ UNCHANGED <<chain, height, jobs, stars, last, sealed>>

\* initializeChain() called on the constructed object: an async function,
\* its promise resolves with undefined.
InitializeChainCall ==
  LET r == InitializeChain(chain, height, now)
  IN /\ Len(r.chain) <= MaxChain
     /\ chain' = r.chain
     /\ height' = r.height
     /\ sealed' = IF Len(r.chain) > Len(chain)
                  THEN Append(sealed, r.chain[Len(r.chain)])
                  ELSE sealed
     /\ last' = [op |-> "initializeChain", args |-> <<>>, at |-> 0,
                 outcome |-> r.promise, value |-> <<>>]
     /\ UNCHANGED <<now, ticks, jobs, stars>>

\* getChainHeight()
GetChainHeight ==
  /\ last' = [op |-> "getChainHeight", args |-> <<>>, at |-> 0,
              outcome |-> "resolved", value |-> <<height>>]
  /\ UNCHANGED <<chain, height, now, ticks, jobs, stars, sealed>>

\* requestMessageOwnershipVerification(address)
RequestMessageOwnershipVerification(address) ==
  /\ last' = [op |-> "requestMessageOwnershipVerification", args |-> <<address>>,
              at |-> now, outcome |-> "resolved",
              value |-> <<ChallengeString(address, now)>>]
  /\ UNCHANGED <<chain, height, now, ticks, jobs, stars, sealed>>

\* The messages and signatures a client submits: the challenge string issued
\* to "A" when the chain was constructed or a plain string, signed by any
\* wallet or not signed properly at all.
Messages == {ChallengeString("A", StartMs), PlainMessage}
Signatures(message) == {Sign(a, message) : a \in Addresses} \cup {MalformedSignature}

\* submitStar(address, message, signature, star), up to its await.
SubmitStar(address, message, signature, star) ==
  LET r == SubmitStarSync(chain, height, address, message, signature, star, now)
      args == <<address, message, signature, star>>
  IN /\ Len(r.chain) <= MaxChain
     /\ chain' = r.chain
     /\ height' = r.height
     /\ jobs' = IF r.promise = "awaiting"
                THEN Append(jobs, [kind |-> "submitStar", index |-> r.index,
                                   args |-> args, at |-> now])
                ELSE jobs
     /\ last' = [op |-> "submitStar", args |-> args, at |-> now,
                 outcome |-> r.promise,
                 value |-> IF r.promise = "rejected" THEN <<r.error>> ELSE <<>>]
     /\ sealed' = IF Len(r.chain) > Len(chain)
                  THEN Append(sealed, r.chain[Len(r.chain)])
                  ELSE sealed
     /\ UNCHANGED <<now, ticks, stars>>

\* submitStar after its await: resolve(block), the block that was pushed.
SubmitStarResume ==
  /\ jobs # <<>>
  /\ Head(jobs).kind = "submitStar"
  /\ last' = [op |-> "submitStar", args |-> Head(jobs).args, at |-> Head(jobs).at,
              outcome |-> "resolved", value |-> <<chain[Head(jobs).index + 1]>>]
  /\ jobs' = Tail(jobs)
  /\ UNCHANGED <<chain, height, now, ticks, stars, sealed>>

(************************** lookups ****************************************)
\* array.filter(..)[0], given the list positions `hits` of the elements
\* that the filter keeps: the first element kept, as a list of at most one.
FirstWhere(ch, hits) ==
  IF hits = {} THEN <<>>
  ELSE <<ch[CHOOSE i \in hits : \A j \in hits : i <= j]>>

\* getBlockByHash(hash)
GetBlockByHashResult(ch, hash) ==
  LET result == FirstWhere(ch, {i \in 1..Len(ch) : ch[i].hash = hash})
  IN IF result # <<>> THEN [outcome |-> "resolved", value |-> result]
     ELSE [outcome |-> "rejected", value |-> <<"Block not found!">>]

\* getBlockByHeight(height); the value <<>> is null.
GetBlockByHeightResult(ch, h) ==
  [outcome |-> "resolved",
   value |-> FirstWhere(ch, {i \in 1..Len(ch) : ch[i].height = h})]

\* The hashes callers look up: those stored in the chain and one stored
\* nowhere (the hash of an unsealed, never appended block).
UnknownHash == SHA256Json(Block([data |-> <<"nothing">>]))
Hashes == {chain[i].hash : i \in 1..Len(chain)} \cup {UnknownHash}

GetBlockByHash(hash) ==
  /\ last' = [op |-> "getBlockByHash", args |-> <<hash>>, at |-> 0,
              outcome |-> GetBlockByHashResult(chain, hash).outcome,
              value |-> GetBlockByHashResult(chain, hash).value]
  /\ UNCHANGED <<chain, height, now, ticks, jobs, stars, sealed>>

GetBlockByHeight(h) ==
  /\ last' = [op |-> "getBlockByHeight", args |-> <<h>>, at |-> 0,
              outcome |-> GetBlockByHeightResult(chain, h).outcome,
              value |-> GetBlockByHeightResult(chain, h).value]
  /\ UNCHANGED <<chain, height, now, ticks, jobs, stars, sealed>>

(********************* getStarsByWalletAddress *****************************)
\* if (block.height > 0)
IsStarBlock(block) == block.height > 0

\* The reactions that the forEach registers with getBData().then(..), one
\* for each block that passes the height test, in chain order.  getBData's
\* promise is already resolved, so each reaction is queued at once.
RECURSIVE StarReactions(_, _, _)
StarReactions(ch, i, address) ==
  IF i > Len(ch) THEN <<>>
  ELSE (IF IsStarBlock(ch[i])
        THEN <<[kind |-> "getBData", index |-> i - 1, args |-> <<address>>,
                at |-> 0]>>
        ELSE <<>>) \o StarReactions(ch, i + 1, address)

\* (a variant of the reaction below without the owner test)
StarsAfterAnyOwner(st, block, address) == Append(st, GetBData(block))

\* The reaction's body: push the decoded block when the owner matches.
StarsAfter(st, block, address) ==
  LET resolved_block == GetBData(block)
  IN IF Owner(resolved_block) = address THEN Append(st, resolved_block) ELSE st

GetStarsInFlight ==
  \E i \in 1..Len(jobs) : jobs[i].kind \in {"getBData", "getStars"}

\* getStarsByWalletAddress(address): the executor runs the forEach, then
\* resolves with the `stars` array itself, which the reactions fill later;
\* the caller's own reaction to the returned promise is queued behind them.
\* One call is in flight at a time.
GetStarsByWalletAddress(address) ==
  /\ ~GetStarsInFlight
  /\ stars' = <<>>
  /\ jobs' = jobs \o StarReactions(chain, 1, address)
                  \o <<[kind |-> "getStars", index |-> Len(chain),
                        args |-> <<address>>, at |-> 0]>>
  /\ last' = [op |-> "getStarsByWalletAddress", args |-> <<address>>, at |-> 0,
              outcome |-> "awaiting", value |-> <<>>]
  /\ UNCHANGED <<chain, height, now, ticks, sealed>>

\* (a variant of the reaction step below that decodes the block in place)
GetBDataThenInPlace ==
  /\ jobs # <<>>
  /\ Head(jobs).kind = "getBData"
  /\ stars' = StarsAfter(stars, chain[Head(jobs).index + 1], Head(jobs).args[1])
  /\ chain' = [chain EXCEPT ![Head(jobs).index + 1] = GetBData(@)]
  /\ jobs' = Tail(jobs)
  /\ UNCHANGED <<height, now, ticks, last, sealed>>

\* resolved_data.then(resolved_block => ..) runs.
GetBDataThen ==
  /\ jobs # <<>>
  /\ Head(jobs).kind = "getBData"
  /\ stars' = StarsAfter(stars, chain[Head(jobs).index + 1], Head(jobs).args[1])
  /\ jobs' = Tail(jobs)
  /\ UNCHANGED <<chain, height, now, ticks, last, sealed>>

\* The caller's reaction runs and reads the array the promise resolved with.
GetStarsThen ==
  /\ jobs # <<>>
  /\ Head(jobs).kind = "getStars"
  /\ last' = [op |-> "getStarsByWalletAddress",
              args |-> Head(jobs).args \o <<Head(jobs).index>>,
              at |-> Head(jobs).at, outcome |-> "resolved", value |-> stars]
  /\ jobs' = Tail(jobs)
  /\ UNCHANGED <<chain, height, now, ticks, stars, sealed>>

(************************** validateChain **********************************)
\* The forEach of validateChain from the block at list position i on, with
\* the previous_hash and errorLog it has so far.  An entry of errorLog is
\* what validate() gave for a block ("validate") or the block itself
\* ("block"), with the block's index in the chain.
RECURSIVE ValidateFrom(_, _, _, _)
ValidateFrom(ch, i, previous_hash, errorLog) ==
  IF i > Len(ch) THEN errorLog
  ELSE LET block == ch[i]
           log1 == IF ~BlockValidate(block)
                   THEN Append(errorLog, [kind |-> "validate", index |-> i - 1])
                   ELSE errorLog
           log2 == IF previous_hash # block.previousBlockHash
                   THEN Append(log1, [kind |-> "block", index |-> i - 1])
                   ELSE log1
       IN ValidateFrom(ch, i + 1, block.hash, log2)

\* (a variant of validateChain below that only compares the links)
RECURSIVE LinksFrom(_, _, _, _)
LinksFrom(ch, i, previous_hash, errorLog) ==
  IF i > Len(ch) THEN errorLog
  ELSE LinksFrom(ch, i + 1, ch[i].hash,
                 IF previous_hash # ch[i].previousBlockHash
                 THEN Append(errorLog, [kind |-> "block", index |-> i - 1])
                 ELSE errorLog)
ValidateChainLinksOnly(ch) ==
  [outcome |-> "resolved", value |-> LinksFrom(ch, 1, Null, <<>>)]

\* (a variant of validateChain below that stops at the first entry)
ValidateChainFirstOnly(ch) ==
  LET errorLog == ValidateFrom(ch, 1, Null, <<>>)
  IN [outcome |-> "resolved",
      value |-> IF errorLog = <<>> THEN <<>> ELSE <<Head(errorLog)>>]

\* validateChain(): an array is truthy even when empty, so it resolves.
ValidateChainResult(ch) ==
  [outcome |-> "resolved", value |-> ValidateFrom(ch, 1, Null, <<>>)]

ValidateChain ==
  /\ last' = [op |-> "validateChain", args |-> <<>>, at |-> 0,
              outcome |-> ValidateChainResult(chain).outcome,
              value |-> ValidateChainResult(chain).value]
  /\ UNCHANGED <<chain, height, now, ticks, jobs, stars, sealed>>

(***************************** tampering ***********************************)
\* The values an outside writer may store in a block's fields.
FieldValues(field) ==
  CASE field = "hash" -> Hashes
    [] field = "previousBlockHash" -> Hashes \cup {Null}
    [] field = "height" -> 0..MaxChain
    [] field = "time" -> {SliceSeconds(Instants[k]) : k \in 1..Len(Instants)}
    [] field = "body" -> {Encode(GenesisData)} \cup
                         {Encode(StarData(st, a)) : st \in Stars \cup {"s2"},
                                                    a \in Addresses}

BlockFields == {"hash", "height", "body", "time", "previousBlockHash"}

\* Code outside the class assigns one field of one block of the chain a
\* different value; it happens once, to a chain that is as it was sealed.
Tamper(i, field, value) ==
  /\ chain = sealed
  /\ chain[i][field] # value
  /\ chain' = [chain EXCEPT ![i] = [chain[i] EXCEPT ![field] = value]]
  /\ UNCHANGED <<height, now, ticks, jobs, stars, last, sealed>>

Next ==
  \/ Tick
  \/ InitializeChainCall
  \/ GetChainHeight
  \/ \E a \in Addresses : RequestMessageOwnershipVerification(a)
  \/ \E a \in Addresses, m \in Messages, st \in Stars :
       \E s \in Signatures(m) : SubmitStar(a, m, s, st)
  \/ SubmitStarResume
  \/ \E hash \in Hashes : GetBlockByHash(hash)
  \/ \E h \in 0..MaxChain : GetBlockByHeight(h)
  \/ \E a \in Addresses : GetStarsByWalletAddress(a)
  \/ GetBDataThen
  \/ GetStarsThen
  \/ ValidateChain

Spec == Init /\ [][Next]_vars

\* The class used while some other code writes to a block of the chain;
\* every call is made at the instant of construction.
NextTamper ==
  \/ \E a \in Addresses, m \in Messages, st \in Stars :
       \E s \in Signatures(m) : SubmitStar(a, m, s, st)
  \/ SubmitStarResume
  \/ \E i \in 1..Len(chain), field \in BlockFields :
       \E value \in FieldValues(field) : Tamper(i, field, value)
  \/ ValidateChain

SpecTamper == Init /\ [][NextTamper]_vars

\* Blocks handed to _addBlock directly: a star block, and a block whose
\* body cannot be turned into a string.
DirectBlocks ==
  {Block(StarData(st, a)) : st \in Stars, a \in Addresses}
    \cup {[Block(GenesisData) EXCEPT !.body = Cyclic]}

\* _addBlock(block) called on the object; its executor runs to the end
\* within the call.
AddBlockCall(block) ==
  LET r == AddBlock(chain, height, block, now)
  IN /\ Len(r.chain) <= MaxChain
     /\ chain' = r.chain
     /\ height' = r.height
     /\ sealed' = IF Len(r.chain) > Len(chain)
                  THEN Append(sealed, r.chain[Len(r.chain)])
                  ELSE sealed
     /\ last' = [op |-> "_addBlock", args |-> <<block>>, at |-> 0,
                 outcome |-> r.promise,
                 value |-> IF r.promise = "resolved"
                           THEN <<r.chain[r.index + 1]>> ELSE <<>>]
     /\ UNCHANGED <<now, ticks, jobs, stars>>

\* The class with _addBlock called from outside as well.
NextSeal ==
  \/ Tick
  \/ \E block \in DirectBlocks : AddBlockCall(block)
  \/ \E a \in Addresses, m \in Messages, st \in Stars :
       \E s \in Signatures(m) : SubmitStar(a, m, s, st)
  \/ SubmitStarResume
  \/ GetChainHeight
  \/ ValidateChain

SpecSeal == Init /\ [][NextSeal]_vars

(***************************************************************************)
(*                              The claims                                 *)
(***************************************************************************)
\* The step is the synchronous part of a submitStar call with inputs c
\* (address, message, signature, star); such a step records c in last'.
IsSubmitStep(c) ==
  /\ last'.op = "submitStar" /\ last'.outcome # "resolved" /\ last'.args = c
  /\ SubmitStar(c[1], c[2], c[3], c[4])
\* The inputs of the call that a step may be.
SubmitCalls == IF last'.op = "submitStar" THEN {last'.args} ELSE {}

\* Seconds from the timestamp in field 1 of a message to the clock reading ms.
ElapsedSeconds(message, ms) == SliceSeconds(ms) - message[2]
HasTimestamp(message) == Len(message) >= 2

\* C1: right after construction, before any call, the chain holds exactly
\* one block with previousBlockHash null and the genesis payload, and the
\* height is 0.
C1_GenesisState ==
  last.op = "none" =>
    /\ Len(chain) = 1
    /\ chain[1].previousBlockHash = Null
    /\ Decode(chain[1].body) = GenesisData
    /\ height = 0

\* C2: the block at chain index i has position i, for every i, and the
\* height counter is the number of blocks minus one.
C2_PositionsAndHeight ==
  /\ \A i \in 1..Len(chain) : chain[i].height = i - 1
  /\ height = Len(chain) - 1

\* C3: every block after the first carries, as previousBlockHash, the hash
\* of the block right before it in the chain.
C3_LinkedToPredecessor ==
  \A i \in 2..Len(chain) : chain[i].previousBlockHash = chain[i - 1].hash

\* C4: a submitStar call appends a block if and only if the signature
\* verifies and fewer than 5 * 60 seconds have passed since the timestamp in
\* field 1 of the message (so 299 s passes and 300 s does not).
C4_AppendIffGate ==
  [][\A c \in SubmitCalls :
       IsSubmitStep(c) =>
         ((Len(chain') = Len(chain) + 1) <=>
            /\ Verify(c[2], c[1], c[3]) = "true"
            /\ HasTimestamp(c[2])
            /\ ElapsedSeconds(c[2], now) < 5 * 60)]_vars

\* C4's case: a validly signed submission is rejected at exactly 300 s, in a
\* chain that holds a block accepted at 299 s.
C4_Witness ==
  /\ last.op = "submitStar" /\ last.outcome = "rejected"
  /\ Verify(last.args[2], last.args[1], last.args[3]) = "true"
  /\ HasTimestamp(last.args[2])
  /\ ElapsedSeconds(last.args[2], last.at) = 300
  /\ \E i \in 2..Len(chain) : chain[i].time = SliceSeconds(StartMs) + 299

\* C5: a submitStar call that rejects leaves the chain and the height
\* counter as they were.
C5_RejectChangesNothing ==
  [][\A c \in SubmitCalls :
       (IsSubmitStep(c) /\ last'.outcome = "rejected") =>
         (chain' = chain /\ height' = height)]_vars

\* C5's case: a submission with a signature that does not verify has been
\* rejected on a chain that already holds a star.
C5_Witness ==
  /\ last.op = "submitStar" /\ last.outcome = "rejected"
  /\ Verify(last.args[2], last.args[1], last.args[3]) = "false"
  /\ Len(chain) >= 2

\* The cause of a rejected submission of a message with a timestamp, and
\* whether the call record l is such a rejection.
RejectionCause(l) ==
  IF ElapsedSeconds(l.args[2], l.at) >= 5 * 60 THEN "ExpiredChallenge"
  ELSE "InvalidSignature"
IsTimedRejection(l) ==
  l.op = "submitStar" /\ l.outcome = "rejected" /\ HasTimestamp(l.args[2])

\* C6: the rejection of an expired challenge and the rejection of a bad
\* signature within the window are different values: two rejections of
\* different cause, one after the other, do not carry the same error.
C6_DistinctRejections ==
  [][(/\ IsTimedRejection(last) /\ IsTimedRejection(last')
      /\ RejectionCause(last) # RejectionCause(last'))
       => last'.value # last.value]_vars

\* C7: a submitStar call that passes the gate adds exactly one block, at the
\* end of the chain, with payload {star: star, owner: address}; and the
\* promise resolves with a sealed block of the chain that carries the call's
\* star and address and the time of the call.
C7_SuccessAppendsOne ==
  [][/\ \A c \in SubmitCalls :
          (IsSubmitStep(c) /\ last'.outcome = "awaiting") =>
            /\ Len(chain') = Len(chain) + 1
            /\ SubSeq(chain', 1, Len(chain)) = chain
            /\ Decode(chain'[Len(chain')].body)
                 = [data |-> <<"star", c[4], "owner", c[1]>>]
     /\ SubmitStarResume =>
          /\ last'.outcome = "resolved"
          /\ Len(last'.value) = 1
          /\ \E i \in 2..Len(chain) : chain[i] = last'.value[1]
          /\ last'.value[1].hash # Null
          /\ Decode(last'.value[1].body)
               = [data |-> <<"star", last'.args[4], "owner", last'.args[1]>>]
          /\ last'.value[1].time = SliceSeconds(last'.at)]_vars

\* C7's case: a submitStar promise has resolved with the last block.
C7_Witness ==
  /\ last.op = "submitStar" /\ last.outcome = "resolved"
  /\ Len(chain) >= 2
  /\ last.value[1] = chain[Len(chain)]

\* C8: validateChain on a chain that nothing but the constructor and
\* submitStar has written resolves with an empty list.
C8_UntouchedChainIsValid ==
  (last.op = "validateChain" /\ chain = sealed) => last.value = <<>>

\* C9: when one field of a block has been changed behind the class's back,
\* validateChain resolves, and its list holds what validate() reported for
\* that block.
C9_TamperIsReported ==
  [][ValidateChain =>
       /\ last'.outcome = "resolved"
       /\ \A i \in 1..Len(chain) :
            chain[i] # sealed[i] =>
              \E k \in 1..Len(last'.value) :
                last'.value[k] = [kind |-> "validate", index |-> i - 1]]_vars

\* C9's case: validateChain has run on a chain with a changed block and
\* has reported a block's own hash.
C9_Witness ==
  /\ last.op = "validateChain"
  /\ chain # sealed
  /\ \E k \in 1..Len(last.value) : last.value[k].kind = "validate"

\* The decoded blocks of ch with height > 0 and owner address, in order.
OwnedBy(ch, address) ==
  LET Mine(block) == block.height > 0 /\ Owner(GetBData(block)) = address
      mine == SelectSeq(ch, Mine)
  IN [k \in 1..Len(mine) |-> GetBData(mine[k])]

\* C10: what the caller of getStarsByWalletAddress(address) reads is the
\* list of the decoded blocks with height > 0 whose owner is address, in
\* chain order, of the chain as it was at the call; the genesis block is
\* never in it, and it is the empty list when no block matches.
C10_StarsOfOwner ==
  (last.op = "getStarsByWalletAddress" /\ last.outcome = "resolved") =>
    /\ last.value = OwnedBy(SubSeq(chain, 1, last.args[2]), last.args[1])
    /\ \A k \in 1..Len(last.value) : last.value[k] # GetBData(chain[1])

\* C10's case: the caller has read a list of one star from a chain that
\* held two stars, of different owners.
C10_Witness ==
  /\ last.op = "getStarsByWalletAddress" /\ last.outcome = "resolved"
  /\ last.args[2] = 3
  /\ Len(last.value) = 1

\* C11: getBlockByHeight(p) resolves with the block at chain index p when
\* the chain has one, and with null when p is beyond the last block.
C11_BlockAtPosition ==
  [][(last'.op = "getBlockByHeight" /\ GetBlockByHeight(last'.args[1])) =>
       /\ last'.outcome = "resolved"
       /\ last'.value = IF last'.args[1] <= Len(chain) - 1
                        THEN <<chain[last'.args[1] + 1]>>
                        ELSE <<>>]_vars

\* C12: getBlockByHash of a hash stored in the chain resolves with the one
\* block that stores it (no other block stores the same hash), and of a
\* hash stored in no block rejects.
C12_AddressableByHash ==
  [][(last'.op = "getBlockByHash" /\ GetBlockByHash(last'.args[1])) =>
       LET holders == {i \in 1..Len(chain) : chain[i].hash = last'.args[1]}
       IN /\ holders = {} => last'.outcome = "rejected"
          /\ holders # {} =>
               /\ last'.outcome = "resolved"
               /\ Cardinality(holders) = 1
               /\ \A i \in holders : last'.value = <<chain[i]>>]_vars

\* The step is one of the operations that only read the chain.
ReadOnlyStep ==
  \/ GetChainHeight
  \/ \E a \in Addresses : RequestMessageOwnershipVerification(a)
  \/ \E hash \in Hashes : GetBlockByHash(hash)
  \/ \E h \in 0..MaxChain : GetBlockByHeight(h)
  \/ \E a \in Addresses : GetStarsByWalletAddress(a)
  \/ GetBDataThen
  \/ GetStarsThen
  \/ ValidateChain

\* C13: the chain only grows at its end: after every step of every
\* operation the chain of before is a prefix of the chain of after, each of
\* its blocks with all five fields as they were.
C13_AppendOnly ==
  [][/\ Len(chain') >= Len(chain)
     /\ SubSeq(chain', 1, Len(chain)) = chain]_vars

\* C13's case: a chain of three blocks, read after the appends.
C13_Witness ==
  /\ Len(chain) >= 3
  /\ last.op = "validateChain"

\* C14: a step of getChainHeight, getBlockByHash, getBlockByHeight,
\* getStarsByWalletAddress, validateChain or
\* requestMessageOwnershipVerification leaves the chain and the height
\* counter as they were (a step that changes either is none of them).
C14_ReadsChangeNothing ==
  [][(chain' # chain \/ height' # height) => ~ReadOnlyStep]_vars

\* C14's case: getStarsByWalletAddress has run to its end on a chain with
\* a star.
C14_Witness ==
  /\ Len(chain) >= 2
  /\ last.op = "getStarsByWalletAddress" /\ last.outcome = "resolved"
  /\ last.args[2] >= 2

\* The chain indexes of the blocks with height 0 and previousBlockHash null.
GenesisBlocks ==
  {i \in 1..Len(chain) : chain[i].height = 0 /\ chain[i].previousBlockHash = Null}

\* C15: exactly one block has height 0 and previousBlockHash null, the
\* block at chain index 0, in every state; and initializeChain called again
\* adds nothing.
C15_OneGenesis ==
  /\ GenesisBlocks = {1}
  /\ [][/\ GenesisBlocks' = {1}
        /\ InitializeChainCall => chain' = chain]_vars

\* C15's case: initializeChain has been called on a chain with a star.
C15_Witness ==
  /\ last.op = "initializeChain"
  /\ Len(chain) >= 2

\* The list holds the entry of the given kind for the block at list
\* position i of the chain.
Reports(log, kind, i) ==
  \E k \in 1..Len(log) : log[k] = [kind |-> kind, index |-> i - 1]

\* C16: the list of validateChain holds block i itself, for i > 0, exactly
\* when its previousBlockHash differs from the hash stored in the block
\* before it; it does not hold the genesis block when that block's
\* previousBlockHash is null; and the violations of all blocks are in the
\* one list.
C16_BrokenLinks ==
  [][ValidateChain =>
       /\ \A i \in 2..Len(chain) :
            Reports(last'.value, "block", i)
              <=> chain[i].previousBlockHash # chain[i - 1].hash
       /\ chain[1].previousBlockHash = Null => ~Reports(last'.value, "block", 1)
       /\ \A i \in 1..Len(chain) :
            chain[i].hash # SHA256Json([chain[i] EXCEPT !.hash = Null])
              => Reports(last'.value, "validate", i)]_vars

\* C16's case: the list holds a changed block's own hash and another
\* block's broken link.
C16_Witness ==
  /\ last.op = "validateChain"
  /\ \E i, j \in 1..Len(chain) :
       /\ i # j
       /\ Reports(last.value, "validate", i)
       /\ Reports(last.value, "block", j)
       /\ ~Reports(last.value, "block", 1)

\* The appends whose submitStar call has not settled yet: the list
\* positions of their blocks.
InFlightAppends == {jobs[k].index + 1 : k \in {n \in 1..Len(jobs) : jobs[n].kind = "submitStar"}}

\* C17: no block of the chain is without its hash at any step of any
\* operation, and no two appends of submitStar calls that are in flight
\* together took the same block as predecessor.
C17_AtomicAppends ==
  /\ \A i \in 1..Len(chain) : chain[i].hash # Null
  /\ \A i, j \in InFlightAppends :
       i # j => chain[i].previousBlockHash # chain[j].previousBlockHash

\* C18: every submitStar call that has not resolved or rejected has its
\* continuation queued, so it settles when the queue is served.
C18_EverySubmitSettles ==
  last.op = "submitStar" =>
    \/ last.outcome \in {"resolved", "rejected"}
    \/ /\ last.outcome = "awaiting"
       /\ \E k \in 1..Len(jobs) :
            /\ jobs[k].kind = "submitStar"
            /\ jobs[k].args = last.args
            /\ jobs[k].at = last.at

\* C19: a call of _addBlock whose block yields no hash rejects, and leaves
\* the chain and the height counter as they were.
C19_SealFailureRejects ==
  [][\A block \in {b \in DirectBlocks : ~Stringifiable(b)} :
       (last'.op = "_addBlock" /\ AddBlockCall(block)) =>
         /\ last'.outcome = "rejected"
         /\ chain' = chain
         /\ height' = height]_vars

\* The call c was accepted before: it passes verification, its message has a
\* timestamp, and the chain holds a block with its star and address.
Resubmitted(c) ==
  /\ Verify(c[2], c[1], c[3]) = "true"
  /\ HasTimestamp(c[2])
  /\ \E i \in 2..Len(chain) : Decode(chain[i].body) = StarData(c[4], c[1])

\* C20: a submitStar call with the address, message, signature and star of
\* a call accepted before appends one more block while fewer than 300
\* seconds have passed since the message's timestamp, and is rejected
\* without a change to the chain from 300 seconds on.
C20_ReuseWithinWindow ==
  [][\A c \in SubmitCalls :
       (IsSubmitStep(c) /\ Resubmitted(c)) =>
         IF ElapsedSeconds(c[2], now) < 5 * 60
         THEN /\ last'.outcome = "awaiting"
              /\ Len(chain') = Len(chain) + 1
              /\ Decode(chain'[Len(chain')].body) = StarData(c[4], c[1])
         ELSE /\ last'.outcome = "rejected"
              /\ chain' = chain]_vars

\* C20's case: the chain holds two blocks of the same submission, and the
\* same submission has been rejected at 300 s.
C20_Witness ==
  /\ Len(chain) >= 3
  /\ chain[2].body = chain[3].body
  /\ last.op = "submitStar" /\ last.outcome = "rejected"
  /\ Resubmitted(last.args)
  /\ Decode(chain[3].body) = StarData(last.args[4], last.args[1])
  /\ ElapsedSeconds(last.args[2], last.at) >= 5 * 60
====
